---- MODULE Spec2Model ----
(***************************************************************************)
(* State-machine model of src/backend/yelp_scraper.py (YelpMenuScraper):   *)
(* the paginated directory search, and the per-business collection loop    *)
(* with its three-table persistence step.                                  *)
(***************************************************************************)
EXTENDS Integers, Sequences, FiniteSets, TLC

\* ------------------------------------------------------------------ bounds
MaxTotalLimit == 101    \* largest total_limit passed to search_restaurants_batch
MaxShort == 1           \* page sizes within MaxShort of 0 or of the requested count
MaxBusinesses == 2      \* businesses handled over all runs of collect_san_ramon_data
MaxItems == 2           \* items one menu page yields
MaxContainers == 2      \* containers one container selector matches
MaxMatching == 2        \* container selectors matching on one page
MaxParts == 2           \* comma-separated parts of an address
MaxPriceLen == 3        \* characters of a generated price text

\* ------------------------------------------------------- program constants
batch_size == 50

None == "None"          \* Python None / JSON null, where a string is expected
NoDetails == <<>>       \* None (or an empty object) from get_restaurant_details
NoPrice == <<>>         \* None, where a float is expected
Fail == -1              \* outcome of a page request that raised (network / HTTP / JSON)

VARIABLES
    total_limit,        \* argument of search_restaurants_batch
    batch_num,          \* loop variable of the for loop at line 55
    all_businesses,     \* businesses collected so far (directory positions)
    requests,           \* log of the page requests issued, in order
    slept,              \* time.sleep(1) has run since the last page request
    search_pc           \* "loop" while inside the for loop, "done" after return

VARIABLES
    restaurant,             \* table restaurant: rows in insertion order
    menu,                   \* table menu
    dish,                   \* table dish
    num_businesses,         \* len(businesses) of the current run
    idx,                    \* businesses of the current run handled so far
    restaurants_processed,  \* counter of line 372
    restaurants_skipped,    \* counter of line 373
    pc,                     \* "idle", "loop", "done" (returned), "aborted" (raised)
    handled,                \* businesses handled over all runs
    last                    \* what happened to the business handled last

VARIABLES
    call,               \* the helper called and its argument
    ret,                \* what the helper returned
    helper_pc           \* "call" before the helper runs, "done" after

VARIABLES
    soup,               \* the fetched menu page: status and matches per selector
    scrape_selector,    \* index of the container selector in use, 0 for none
    items_n,            \* len(items)
    item_idx,           \* containers processed so far
    item,               \* the container processed last and the fields read from it
    menu_items,         \* the items kept so far
    scrape_ret,         \* what scrape_menu_from_yelp returned
    scrape_pc           \* "fetch", "items" or "done"

searchVars == <<total_limit, batch_num, all_businesses, requests, slept, search_pc>>

storeVars == <<restaurant, menu, dish>>

helperVars == <<call, ret, helper_pc>>

scrapeVars == <<soup, scrape_selector, items_n, item_idx, item, menu_items,
                scrape_ret, scrape_pc>>

collectVars == <<restaurant, menu, dish, num_businesses, idx,
                 restaurants_processed, restaurants_skipped, pc, handled, last>>

vars == <<total_limit, batch_num, all_businesses, requests, slept, search_pc,
          restaurant, menu, dish, num_businesses, idx,
          restaurants_processed, restaurants_skipped, pc, handled, last,
          call, ret, helper_pc,
          soup, scrape_selector, items_n, item_idx, item, menu_items,
          scrape_ret, scrape_pc>>

\* no helper call under way
HelperIdle ==
    /\ call = [fn |-> "none"]
    /\ ret = <<>>
    /\ helper_pc = "done"

\* no page being scraped
ScrapeIdle ==
    /\ soup = [status |-> "none"]
    /\ scrape_selector = 0
    /\ items_n = 0
    /\ item_idx = 0
    /\ item = <<>>
    /\ menu_items = <<>>
    /\ scrape_ret = <<>>
    /\ scrape_pc = "done"

\* the collection loop before any run, with an empty store
CollectIdle ==
    /\ restaurant = <<>>
    /\ menu = <<>>
    /\ dish = <<>>
    /\ num_businesses = 0
    /\ idx = 0
    /\ restaurants_processed = 0
    /\ restaurants_skipped = 0
    /\ pc = "idle"
    /\ handled = 0
    /\ last = [kind |-> "none", name |-> None, yelp_id |-> None, scraped |-> <<>>,
                calls |-> <<>>]

\* ------------------------------------------------ search_restaurants_batch
Min(a, b) == IF a <= b THEN a ELSE b

\* variant: one batch too many when total is a multiple of batch_size
NumBatchesPlusOne(total) == total \div batch_size + 1

\* line 51: ceiling division
NumBatches(total) == (total + batch_size - 1) \div batch_size

\* variant: always asks for a full page
BatchLimitFullPage(total, collected) == batch_size

\* line 57: requested count of the next page
BatchLimit(total, collected) == Min(batch_size, total - collected)

\* the businesses a page request at `offset` delivers when it returns n of them
PageOf(offset, n) == [i \in 1..n |-> offset + i]

\* outcomes of one page request with requested count `limit`
PageOutcomes(limit) ==
    {Fail} \cup {n \in 0..limit : n <= MaxShort \/ n >= limit - MaxShort}

\* lines 83-89: the sleep sits in the try block after a non-empty page, and is
\* left out after the last batch
SleepAfterBatch(bn, num_batches, outcome) == outcome > 0 /\ bn < num_batches - 1

\* variant: a page shorter than a full batch ends the loop
FetchBatchStopOnShort(all, bn, offset, outcome) ==
    IF outcome = Fail
    THEN [all |-> all, bn |-> bn + 1, pc |-> "loop"]
    ELSE IF outcome = 0
    THEN [all |-> all, bn |-> bn, pc |-> "done"]
    ELSE IF outcome < batch_size
    THEN [all |-> all \o PageOf(offset, outcome), bn |-> bn, pc |-> "done"]
    ELSE [all |-> all \o PageOf(offset, outcome), bn |-> bn + 1, pc |-> "loop"]

\* variant: a failed page request ends the loop
FetchBatchAbortOnError(all, bn, offset, outcome) ==
    IF outcome = Fail
    THEN [all |-> all, bn |-> bn, pc |-> "done"]
    ELSE IF outcome = 0
    THEN [all |-> all, bn |-> bn, pc |-> "done"]
    ELSE [all |-> all \o PageOf(offset, outcome), bn |-> bn + 1, pc |-> "loop"]

\* lines 70-94: one page request and what the loop does with its outcome;
\* yields the new all_businesses, the next batch_num and whether the loop goes on
FetchBatch(all, bn, offset, outcome) ==
    IF outcome = Fail
    THEN [all |-> all, bn |-> bn + 1, pc |-> "loop"]          \* except: continue
    ELSE IF outcome = 0
    THEN [all |-> all, bn |-> bn, pc |-> "done"]              \* not businesses: break
    ELSE [all |-> all \o PageOf(offset, outcome), bn |-> bn + 1, pc |-> "loop"]

SearchInit ==
    /\ CollectIdle
    /\ HelperIdle
    /\ ScrapeIdle
    /\ total_limit \in 0..MaxTotalLimit
    /\ batch_num = 0
    /\ all_businesses = <<>>
    /\ requests = <<>>
    /\ slept = FALSE
    /\ search_pc = "loop"

\* one iteration of the for loop (lines 55-94)
SearchBatch ==
    /\ search_pc = "loop"
    /\ batch_num < NumBatches(total_limit)
    /\ LET offset == batch_num * batch_size
           limit == BatchLimit(total_limit, Len(all_businesses))
       IN IF limit <= 0
          THEN /\ search_pc' = "done"
               /\ UNCHANGED <<total_limit, batch_num, all_businesses, requests, slept>>
               /\ UNCHANGED <<collectVars, helperVars, scrapeVars>>
          ELSE \E outcome \in PageOutcomes(limit) :
                 LET r == FetchBatch(all_businesses, batch_num, offset, outcome)
                 IN /\ requests' = Append(requests,
                           [offset |-> offset, limit |-> limit,
                            collected |-> Len(all_businesses), slept |-> slept,
                            outcome |-> outcome])
                    /\ slept' = SleepAfterBatch(batch_num, NumBatches(total_limit), outcome)
                    /\ all_businesses' = r.all
                    /\ batch_num' = r.bn
                    /\ search_pc' = r.pc
                    /\ UNCHANGED total_limit
                    /\ UNCHANGED <<collectVars, helperVars, scrapeVars>>

\* the range is exhausted: lines 96-97
SearchReturn ==
    /\ search_pc = "loop"
    /\ batch_num >= NumBatches(total_limit)
    /\ search_pc' = "done"
    /\ UNCHANGED <<total_limit, batch_num, all_businesses, requests, slept>>
    /\ UNCHANGED <<collectVars, helperVars, scrapeVars>>

SearchNext == SearchBatch \/ SearchReturn

SearchSpec == SearchInit /\ [][SearchNext]_vars

SearchFairSpec == SearchSpec /\ WF_vars(SearchNext)

\* ------------------------------------------------------------ claims C6-C8

\* C6: search_restaurants_batch never holds (so never returns) more than
\* total_limit businesses, and no page request asks for a count that, added to
\* the number already collected, exceeds total_limit.
C6_WithinTotalLimit ==
    /\ Len(all_businesses) <= total_limit
    /\ \A i \in DOMAIN requests :
          requests[i].limit + requests[i].collected <= total_limit

\* two pages were needed and the second asked only for the remainder
C6_Witness ==
    /\ search_pc = "done"
    /\ Len(requests) = 2
    /\ requests[2].limit < batch_size
    /\ Len(all_businesses) = total_limit

\* ceil(total / 50), computed without the code's formula
CeilPages(total) ==
    CHOOSE k \in 0..total : k * 50 >= total /\ (k = 0 \/ (k - 1) * 50 < total)

\* C7: the search issues at most ceil(total_limit / 50) page requests, never
\* requests an offset twice, and always reaches its return, also when every
\* page request fails.
C7_BoundedPages ==
    /\ [](/\ Len(requests) <= CeilPages(total_limit)
          /\ \A i, j \in DOMAIN requests :
                i < j => requests[i].offset < requests[j].offset)
    /\ <>(search_pc = "done")

\* every page request failed, and there were at least two
C7_Witness ==
    /\ search_pc = "done"
    /\ Len(requests) >= 2
    /\ Len(requests) = CeilPages(total_limit)
    /\ \A i \in DOMAIN requests : requests[i].outcome = Fail

\* C8: a step whose page request failed keeps the businesses collected so far,
\* moves to the next batch and stays in the loop; the return hands back what
\* was collected.
C8_FailedPageContinues ==
    [][/\ (/\ Len(requests') = Len(requests) + 1
           /\ requests'[Len(requests')].outcome = Fail)
          => (/\ all_businesses' = all_businesses
              /\ batch_num' = batch_num + 1
              /\ search_pc' = "loop")
       /\ (search_pc' = "done" /\ Len(requests') = Len(requests))
          => all_businesses' = all_businesses]_vars

\* a page failed between two pages that delivered businesses
C8_Witness ==
    /\ search_pc = "done"
    /\ Len(requests) = 3
    /\ requests[1].outcome > 0
    /\ requests[2].outcome = Fail
    /\ requests[3].outcome > 0
    /\ Len(all_businesses) = requests[1].outcome + requests[3].outcome
    /\ all_businesses[Len(all_businesses)] > 2 * batch_size

\* ---------------------------------------------------------- business data

YelpIds == {"abc", "xyz"}

\* summary objects of the search response: with both keys, or lacking one
Summaries ==
    {[id |-> i, name |-> "Test Diner"] : i \in YelpIds}
    \cup {[id |-> "abc"], [name |-> "Test Diner"]}

\* results of get_restaurant_details (lines 99-111): None on any error, else
\* the detail object of the business
DetailResults ==
    {NoDetails,
     [name |-> "Joe's", categories |-> <<[title |-> "Pizza"], [title |-> "Bars"]>>],
     [name |-> None],
     [categories |-> <<[alias |-> "pizza"]>>]}

\* dict.update (line 381)
Update(d, e) ==
    [k \in DOMAIN d \cup DOMAIN e |-> IF k \in DOMAIN e THEN e[k] ELSE d[k]]

\* dict.get(key, default)
Get(d, key, default) == IF key \in DOMAIN d THEN d[key] ELSE default

\* lines 375-381: the summary reads business['name'] and business['id'], then
\* the detail object, when there is one, is merged over the summary
SummaryRaises(business) ==
    "name" \notin DOMAIN business \/ "id" \notin DOMAIN business

Merged(business, detailed_info) ==
    IF DOMAIN detailed_info = {} THEN business ELSE Update(business, detailed_info)

RECURSIVE JoinTitles(_)
\* ', '.join([cat['title'] for cat in categories])
JoinTitles(cats) ==
    IF Len(cats) = 1 THEN cats[1].title
    ELSE cats[1].title \o ", " \o JoinTitles(Tail(cats))

\* line 123 raises KeyError on a category without 'title'
ConvertRaises(business_data) ==
    /\ Get(business_data, "categories", <<>>) # <<>>
    /\ \E i \in DOMAIN business_data.categories :
          "title" \notin DOMAIN business_data.categories[i]

\* lines 113-138 (the fields rating, review_count, price_range, website,
\* address and phone are copied through unread and are left out)
convert_to_restaurant(business_data) ==
    [name |-> Get(business_data, "name", "Unknown"),
     yelp_id |-> Get(business_data, "id", ""),
     cuisine_type |->
        IF Get(business_data, "categories", <<>>) # <<>>
        THEN JoinTitles(business_data.categories) ELSE None]

\* line 143: restaurant.name.lower() raises AttributeError on a null name
MenuUrlRaises(r) == r.name = None

\* --------------------------------------------------------------- menu data
\* price texts are written as sequences of characters
Burger == [name |-> "Burger", description |-> "", price |-> <<"$", "9", ".", "9", "9">>]
Soup == [name |-> "Soup", description |-> "Hot", price |-> <<>>]

\* the items kept from a menu page of n containers: priced and unpriced items
\* alternate
MenuPage(n) == [k \in 1..n |-> IF k % 2 = 1 THEN Burger ELSE Soup]

\* results of scrape_menu_from_yelp (lines 173-266): the items kept, in page order
ScrapeResults == {MenuPage(n) : n \in 0..MaxItems}

NoMenuData == [menus |-> <<>>, dishes |-> <<>>]     \* the None of line 285

\* variant: the synthetic menu is built whether or not dishes were scraped
get_menu_data_always(r, scraped_dishes) ==
    [menus |-> <<[name |-> r.name \o " Menu",
                  description |-> "Main menu for " \o r.name,
                  menu_type |-> "main",
                  display_order |-> 0]>>,
     dishes |-> scraped_dishes]

\* lines 268-285
get_menu_data(r, scraped_dishes) ==
    IF scraped_dishes # <<>>
    THEN [menus |-> <<[name |-> r.name \o " Menu",
                        description |-> "Main menu for " \o r.name,
                        menu_type |-> "main",
                        display_order |-> 0]>>,
          dishes |-> scraped_dishes]
    ELSE NoMenuData

\* ------------------------------------------------------------- clean_price
Digits == {"0", "1", "2", "3", "4", "5", "6", "7", "8", "9"}

DigitValue(c) ==
    CASE c = "0" -> 0 [] c = "1" -> 1 [] c = "2" -> 2 [] c = "3" -> 3
      [] c = "4" -> 4 [] c = "5" -> 5 [] c = "6" -> 6 [] c = "7" -> 7
      [] c = "8" -> 8 [] c = "9" -> 9

IsDigitOrDot(c) == c \in Digits \cup {"."}
IsDigit(c) == c \in Digits
IsDot(c) == c = "."

RECURSIVE IntOf(_)
IntOf(ds) ==
    IF ds = <<>> THEN 0
    ELSE 10 * IntOf(SubSeq(ds, 1, Len(ds) - 1)) + DigitValue(ds[Len(ds)])

RECURSIVE Normal(_, _)
\* the number m / 10^e with trailing zeros of the fraction removed
Normal(m, e) == IF e > 0 /\ m % 10 = 0 THEN Normal(m \div 10, e - 1) ELSE <<m, e>>

\* variant: a remainder without any digit converts (to zero)
FloatRaisesOnDots(cleaned) ==
    Len(SelectSeq(cleaned, IsDot)) > 1

\* float(cleaned): ValueError unless digits with at most one decimal point;
\* the value is written <<m, e>> for m / 10^e
FloatRaises(cleaned) ==
    \/ Len(SelectSeq(cleaned, IsDot)) > 1
    \/ SelectSeq(cleaned, IsDigit) = <<>>

Float(cleaned) ==
    LET dot == IF \E i \in DOMAIN cleaned : cleaned[i] = "."
               THEN CHOOSE i \in DOMAIN cleaned : cleaned[i] = "."
               ELSE Len(cleaned) + 1
    IN Normal(IntOf(SelectSeq(cleaned, IsDigit)), Len(cleaned) + 1 - Min(dot + 1, Len(cleaned) + 1))

\* variant: the decimal point is stripped with the other characters
clean_price_digits_only(price_str) ==
    IF price_str = <<>> THEN NoPrice
    ELSE LET cleaned == SelectSeq(price_str, IsDigit)
         IN IF cleaned = <<>> THEN NoPrice
            ELSE IF FloatRaises(cleaned) THEN NoPrice
            ELSE Float(cleaned)

\* lines 287-298
clean_price(price_str) ==
    IF price_str = <<>> THEN NoPrice
    ELSE LET cleaned == SelectSeq(price_str, IsDigitOrDot)
         IN IF cleaned = <<>> THEN NoPrice
            ELSE IF FloatRaises(cleaned) THEN NoPrice
            ELSE Float(cleaned)

\* -------------------------------------------------------- save_to_database
\* a store call, as logged: the operation, its table and whether it returned
Call(op, table, ok) == [op |-> op, table |-> table, ok |-> ok]

\* variant: the lookup filters on the wrong column
ExistingRowsByName(table, yelp_id) ==
    SelectSeq(table, LAMBDA row : row.name = yelp_id)

\* variant: the lookup has no filter and returns every row
ExistingRowsUnfiltered(table, yelp_id) == table

\* line 317: select('id').eq('yelp_id', restaurant.yelp_id)
ExistingRows(table, yelp_id) ==
    SelectSeq(table, LAMBDA row : row.yelp_id = yelp_id)

\* the store calls of one save_to_database are numbered from 1; call number
\* failAt raises (0, or a number beyond the last call: no call raises)
RECURSIVE InsertDishesEach(_, _, _, _, _)
\* variant: a failed dish insert is swallowed and the next dish is inserted
InsertDishesEach(db, calls, menu_id, dishes, failAt) ==
    IF dishes = <<>> THEN [db |-> db, calls |-> calls, failed |-> FALSE]
    ELSE IF Len(calls) + 1 = failAt
    THEN InsertDishesEach(db, Append(calls, Call("insert", "dish", FALSE)),
                          menu_id, Tail(dishes), failAt)
    ELSE LET dish_data == Head(dishes)
             dish_insert_data ==
                [id |-> Len(db.dish) + 1,
                 menu_id |-> menu_id,
                 name |-> dish_data.name,
                 description |-> Get(dish_data, "description", ""),
                 price |-> clean_price(Get(dish_data, "price", <<>>)),
                 display_order |-> 0]
         IN InsertDishesEach([db EXCEPT !.dish = Append(@, dish_insert_data)],
                             Append(calls, Call("insert", "dish", TRUE)),
                             menu_id, Tail(dishes), failAt)

RECURSIVE InsertDishes(_, _, _, _, _)
\* lines 336-348
InsertDishes(db, calls, menu_id, dishes, failAt) ==
    IF dishes = <<>> THEN [db |-> db, calls |-> calls, failed |-> FALSE]
    ELSE IF Len(calls) + 1 = failAt
    THEN [db |-> db, calls |-> Append(calls, Call("insert", "dish", FALSE)),
          failed |-> TRUE]
    ELSE LET dish_data == Head(dishes)
             dish_insert_data ==
                [id |-> Len(db.dish) + 1,
                 menu_id |-> menu_id,
                 name |-> dish_data.name,
                 description |-> Get(dish_data, "description", ""),
                 price |-> clean_price(Get(dish_data, "price", <<>>)),
                 display_order |-> 0]
         IN InsertDishes([db EXCEPT !.dish = Append(@, dish_insert_data)],
                         Append(calls, Call("insert", "dish", TRUE)),
                         menu_id, Tail(dishes), failAt)

RECURSIVE InsertMenusRollback(_, _, _, _, _, _)
\* variant: when a dish insert fails, the menu and its dishes are taken back
InsertMenusRollback(db, calls, restaurant_id, menus, dishes, failAt) ==
    IF menus = <<>> THEN [db |-> db, calls |-> calls, failed |-> FALSE]
    ELSE IF Len(calls) + 1 = failAt
    THEN [db |-> db, calls |-> Append(calls, Call("insert", "menu", FALSE)),
          failed |-> TRUE]
    ELSE LET menu_data ==
                [id |-> Len(db.menu) + 1,
                 restaurant_id |-> restaurant_id,
                 name |-> Head(menus).name,
                 description |-> Head(menus).description,
                 menu_type |-> Head(menus).menu_type,
                 display_order |-> Head(menus).display_order]
             after == InsertDishes([db EXCEPT !.menu = Append(@, menu_data)],
                                   Append(calls, Call("insert", "menu", TRUE)),
                                   menu_data.id, dishes, failAt)
         IN IF after.failed THEN [db |-> db, calls |-> after.calls, failed |-> TRUE]
            ELSE InsertMenusRollback(after.db, after.calls, restaurant_id,
                                     Tail(menus), dishes, failAt)

RECURSIVE InsertMenus(_, _, _, _, _, _)
\* lines 328-350
InsertMenus(db, calls, restaurant_id, menus, dishes, failAt) ==
    IF menus = <<>> THEN [db |-> db, calls |-> calls, failed |-> FALSE]
    ELSE IF Len(calls) + 1 = failAt
    THEN [db |-> db, calls |-> Append(calls, Call("insert", "menu", FALSE)),
          failed |-> TRUE]
    ELSE LET menu_data ==
                [id |-> Len(db.menu) + 1,
                 restaurant_id |-> restaurant_id,
                 name |-> Head(menus).name,
                 description |-> Head(menus).description,
                 menu_type |-> Head(menus).menu_type,
                 display_order |-> Head(menus).display_order]
             after == InsertDishes([db EXCEPT !.menu = Append(@, menu_data)],
                                   Append(calls, Call("insert", "menu", TRUE)),
                                   menu_data.id, dishes, failAt)
         IN IF after.failed THEN after
            ELSE InsertMenus(after.db, after.calls, restaurant_id,
                             Tail(menus), dishes, failAt)

\* variant: an existing row is brought up to date with the new data (upsert)
save_to_database_update(db, r, menus, dishes, failAt) ==
    IF failAt = 1
    THEN [db |-> db, calls |-> <<Call("select", "restaurant", FALSE)>>,
          failed |-> TRUE]
    ELSE LET existing == ExistingRows(db.restaurant, r.yelp_id)
             selected == <<Call("select", "restaurant", TRUE)>>
         IN IF existing # <<>>
            THEN InsertMenus(
                    [db EXCEPT !.restaurant =
                        [i \in DOMAIN @ |->
                            IF @[i].yelp_id = r.yelp_id
                            THEN [@[i] EXCEPT !.name = r.name,
                                              !.cuisine_type = r.cuisine_type]
                            ELSE @[i]]],
                    selected, existing[1].id, menus, dishes, failAt)
            ELSE IF failAt = 2
            THEN [db |-> db,
                  calls |-> Append(selected, Call("insert", "restaurant", FALSE)),
                  failed |-> TRUE]
            ELSE LET restaurant_data ==
                        [id |-> Len(db.restaurant) + 1,
                         name |-> r.name,
                         yelp_id |-> r.yelp_id,
                         cuisine_type |-> r.cuisine_type]
                 IN InsertMenus([db EXCEPT !.restaurant = Append(@, restaurant_data)],
                                Append(selected, Call("insert", "restaurant", TRUE)),
                                restaurant_data.id, menus, dishes, failAt)

\* lines 300-353: every exception is caught at line 352, so the function
\* returns with the store as the calls before the failing one left it
save_to_database(db, r, menus, dishes, failAt) ==
    IF failAt = 1
    THEN [db |-> db, calls |-> <<Call("select", "restaurant", FALSE)>>,
          failed |-> TRUE]
    ELSE LET existing == ExistingRows(db.restaurant, r.yelp_id)
             selected == <<Call("select", "restaurant", TRUE)>>
         IN IF existing # <<>>
            THEN InsertMenus(db, selected, existing[1].id, menus, dishes, failAt)
            ELSE IF failAt = 2
            THEN [db |-> db,
                  calls |-> Append(selected, Call("insert", "restaurant", FALSE)),
                  failed |-> TRUE]
            ELSE LET restaurant_data ==
                        [id |-> Len(db.restaurant) + 1,
                         name |-> r.name,
                         yelp_id |-> r.yelp_id,
                         cuisine_type |-> r.cuisine_type]
                 IN InsertMenus([db EXCEPT !.restaurant = Append(@, restaurant_data)],
                                Append(selected, Call("insert", "restaurant", TRUE)),
                                restaurant_data.id, menus, dishes, failAt)

FailPoints == 0..(3 + MaxItems)

\* -------------------------------------------------- collect_san_ramon_data
CollectInit ==
    /\ CollectIdle
    /\ HelperIdle
    /\ ScrapeIdle
    /\ total_limit = 0
    /\ batch_num = 0
    /\ all_businesses = <<>>
    /\ requests = <<>>
    /\ slept = FALSE
    /\ search_pc = "done"

\* lines 355-373: a run starts on the store the earlier runs left; the search
\* returned n businesses, and none at all ends the run at line 368 (the first
\* business handled over all runs, handled = 0, meets the empty store)
StartRun ==
    /\ pc \in {"idle", "done", "aborted"}
    /\ handled < MaxBusinesses
    /\ \E n \in 0..(MaxBusinesses - handled) :
         /\ num_businesses' = n
         /\ pc' = IF n = 0 THEN "done" ELSE "loop"
    /\ idx' = 0
    /\ restaurants_processed' = 0
    /\ restaurants_skipped' = 0
    /\ last' = [kind |-> "none", name |-> None, yelp_id |-> None, scraped |-> <<>>,
                calls |-> <<>>]
    /\ UNCHANGED <<restaurant, menu, dish, handled>>
    /\ UNCHANGED <<searchVars, helperVars, scrapeVars>>

\* lines 376-387 raise on this business: nothing in the loop catches it
BusinessRaises(business, detailed_info) ==
    \/ SummaryRaises(business)
    \/ ConvertRaises(Merged(business, detailed_info))
    \/ MenuUrlRaises(convert_to_restaurant(Merged(business, detailed_info)))

\* variant: a business counts as processed only when every store call returned
ProcessedIfSaved(processed, saved) ==
    IF \A i \in DOMAIN saved.calls : saved.calls[i].ok THEN processed + 1 ELSE processed

\* line 394: the counter after save_to_database has returned, whatever it did
ProcessedAfter(processed, saved) == processed + 1

\* one iteration of the for loop (lines 375-407) on the business at idx
ProcessBusiness ==
    /\ pc = "loop"
    /\ idx < num_businesses
    /\ \E business \in Summaries, detailed_info \in DetailResults :
         IF BusinessRaises(business, detailed_info)
         THEN /\ pc' = "aborted"
              /\ last' = [kind |-> "raised", name |-> None, yelp_id |-> None,
                          scraped |-> <<>>, calls |-> <<>>]
              /\ UNCHANGED <<restaurant, menu, dish, idx,
                             restaurants_processed, restaurants_skipped>>
         ELSE \E scraped \in ScrapeResults, failAt \in FailPoints :
              LET r == convert_to_restaurant(Merged(business, detailed_info))
                  menu_data == get_menu_data(r, scraped)
              IN /\ IF menu_data # NoMenuData
                    THEN LET saved == save_to_database(
                                 [restaurant |-> restaurant, menu |-> menu, dish |-> dish],
                                 r, menu_data.menus, menu_data.dishes, failAt)
                         IN /\ restaurant' = saved.db.restaurant
                            /\ menu' = saved.db.menu
                            /\ dish' = saved.db.dish
                            /\ restaurants_processed' =
                                  ProcessedAfter(restaurants_processed, saved)
                            /\ UNCHANGED restaurants_skipped
                            /\ last' = [kind |-> "processed", name |-> r.name,
                                        yelp_id |-> r.yelp_id,
                                        scraped |-> scraped, calls |-> saved.calls]
                    ELSE /\ restaurants_skipped' = restaurants_skipped + 1
                         /\ UNCHANGED <<restaurant, menu, dish, restaurants_processed>>
                         /\ last' = [kind |-> "skipped", name |-> r.name,
                                     yelp_id |-> r.yelp_id,
                                     scraped |-> scraped, calls |-> <<>>]
                 /\ idx' = idx + 1
                 /\ pc' = IF idx + 1 = num_businesses THEN "done" ELSE "loop"
    /\ handled' = handled + 1
    /\ UNCHANGED num_businesses
    /\ UNCHANGED <<searchVars, helperVars, scrapeVars>>

Next == StartRun \/ ProcessBusiness

Init == CollectInit

Spec == Init /\ [][Next]_vars

\* ------------------------------------------------- claims C1-C5, C9, C10
AllOk(calls) == \A i \in DOMAIN calls : calls[i].ok
SomeFailed(calls) == \E i \in DOMAIN calls : ~calls[i].ok

\* C1: in every reachable store state no two restaurant rows share an
\* external identifier (yelp_id), whatever the runs and listings were.
C1_OneRowPerYelpId ==
    \A i, j \in DOMAIN restaurant :
        i # j => restaurant[i].yelp_id # restaurant[j].yelp_id

\* a second run saved a business whose row the first run had inserted
C1_Witness ==
    /\ handled = 2 /\ num_businesses = 1
    /\ last.kind = "processed"
    /\ AllOk(last.calls)
    /\ Len(last.calls) >= 3
    /\ \A i \in DOMAIN last.calls : last.calls[i].table # "restaurant" \/ last.calls[i].op = "select"
    /\ Len(restaurant) = 1
    /\ Len(menu) = 2

\* C2: a business whose menu extraction returned zero items makes no store
\* call, leaves the three tables alone, adds one to the skipped counter and
\* leaves the processed counter unchanged.
C2_SkipPolicy ==
    [][(/\ handled' = handled + 1
        /\ last'.kind # "raised"
        /\ last'.scraped = <<>>)
       => (/\ last'.calls = <<>>
           /\ restaurant' = restaurant /\ menu' = menu /\ dish' = dish
           /\ restaurants_skipped' = restaurants_skipped + 1
           /\ restaurants_processed' = restaurants_processed)]_vars

\* a business was skipped after another one of the run was saved
C2_Witness ==
    /\ last.kind = "skipped"
    /\ last.scraped = <<>>
    /\ restaurants_skipped = 1
    /\ restaurants_processed = 1
    /\ Len(restaurant) = 1

\* C3: an exception raised while one business is processed is caught per
\* business: the business counts as skipped and the run is not aborted.
C3_BatchNeverAborts ==
    last.kind = "raised" => (pc # "aborted" /\ restaurants_skipped >= 1)

\* C4: between businesses every restaurant row has a menu row linked to it
\* that has a dish row linked to it, whatever store calls failed.
C4_EveryRestaurantHasDishes ==
    \A i \in DOMAIN restaurant :
        \E m \in DOMAIN menu :
            /\ menu[m].restaurant_id = restaurant[i].id
            /\ \E d \in DOMAIN dish : dish[d].menu_id = menu[m].id

\* C5: no restaurant row ever owns two or more menu rows.
C5_AtMostOneMenu ==
    \A i, j \in DOMAIN menu :
        i # j => menu[i].restaurant_id # menu[j].restaurant_id

\* C9: when a store call of save_to_database raises, it is the last store
\* call made for that business, the business still counts as processed, and
\* the loop moves on to the next business (or ends normally after the last).
C9_PersistenceFailureContained ==
    [][(handled' = handled + 1 /\ SomeFailed(last'.calls))
       => (/\ \A i \in DOMAIN last'.calls :
                 ~last'.calls[i].ok => i = Len(last'.calls)
           /\ idx' = idx + 1
           /\ restaurants_processed' = restaurants_processed + 1
           /\ pc' = IF idx' = num_businesses THEN "done" ELSE "loop")]_vars

\* the insert of the first of two dishes failed and a business remains
C9_Witness ==
    /\ last.kind = "processed"
    /\ Len(last.scraped) = 2
    /\ Len(last.calls) = 4
    /\ ~last.calls[4].ok
    /\ Len(dish) = 0
    /\ pc = "loop"
    /\ idx < num_businesses

\* the value the price text of an item stands for (m / 10^e as <<m, e>>)
ExpectedPrice(price_text) ==
    IF price_text = <<"$", "9", ".", "9", "9">> THEN <<999, 2>> ELSE NoPrice

\* C10: on an empty store with no call failing, a batch of one business whose
\* page yields n >= 1 items leaves one restaurant row, one menu row named
\* "{name} Menu" of type main linked to it, and n dish rows linked to that
\* menu, each with the parsed price of its item, or None.
C10_EndToEnd ==
    (/\ handled = 1 /\ num_businesses = 1
     /\ last.kind = "processed" /\ AllOk(last.calls))
    => (/\ Len(restaurant) = 1
        /\ restaurant[1].name = last.name
        /\ Len(menu) = 1
        /\ menu[1].name = last.name \o " Menu"
        /\ menu[1].menu_type = "main"
        /\ menu[1].restaurant_id = restaurant[1].id
        /\ Len(dish) = Len(last.scraped)
        /\ \A k \in DOMAIN dish :
              /\ dish[k].menu_id = menu[1].id
              /\ dish[k].name = last.scraped[k].name
              /\ dish[k].price = ExpectedPrice(last.scraped[k].price))

\* "Test Diner" with a priced and an unpriced item
C10_Witness ==
    /\ handled = 1 /\ num_businesses = 1
    /\ last.kind = "processed" /\ AllOk(last.calls)
    /\ restaurant[1].name = "Test Diner"
    /\ restaurant[1].yelp_id = "abc"
    /\ menu[1].name = "Test Diner Menu"
    /\ Len(dish) = 2
    /\ dish[1].name = "Burger" /\ dish[1].price = <<999, 2>>
    /\ dish[2].name = "Soup" /\ dish[2].price = NoPrice

\* --------------------------------------------------- claims C11, C19, C20
IsPrefix(s, t) == Len(s) <= Len(t) /\ \A i \in DOMAIN s : t[i] = s[i]

\* the rows a step added to a table
Added(old, new) == SubSeq(new, Len(old) + 1, Len(new))

\* C11: every row of the three tables stays, unchanged and in place, in every
\* later state; and a save whose lookup finds a row with the business's
\* yelp_id leaves the restaurant table as it is and links the new menu to
\* that row.
C11_AppendOnly ==
    [][/\ IsPrefix(restaurant, restaurant')
       /\ IsPrefix(menu, menu')
       /\ IsPrefix(dish, dish')
       /\ (/\ handled' = handled + 1
           /\ last'.kind = "processed"
           /\ \E i \in DOMAIN restaurant : restaurant[i].yelp_id = last'.yelp_id)
          => (/\ restaurant' = restaurant
              /\ \A m \in DOMAIN Added(menu, menu') :
                    \E i \in DOMAIN restaurant :
                       /\ restaurant[i].yelp_id = last'.yelp_id
                       /\ Added(menu, menu')[m].restaurant_id = restaurant[i].id)]_vars

\* "abc" was saved as "Test Diner", then saved again under the name "Joe's"
C11_Witness ==
    /\ handled = 2
    /\ last.kind = "processed" /\ AllOk(last.calls)
    /\ last.name = "Joe's"
    /\ Len(restaurant) = 1
    /\ restaurant[1].yelp_id = last.yelp_id
    /\ restaurant[1].name = "Test Diner"
    /\ Len(menu) = 2
    /\ menu[2].name = "Joe's Menu"
    /\ menu[2].restaurant_id = restaurant[1].id

\* C19: in every store state every menu row links to an existing restaurant
\* row and every dish row to an existing menu row, also after a store call
\* failed partway; and every menu row a save adds links to the restaurant row
\* that carries the yelp_id of the business being saved.
C19_ReferentialIntegrity ==
    /\ [](/\ \A m \in DOMAIN menu :
               \E i \in DOMAIN restaurant : restaurant[i].id = menu[m].restaurant_id
          /\ \A d \in DOMAIN dish :
               \E m \in DOMAIN menu : menu[m].id = dish[d].menu_id)
    /\ [][\A m \in DOMAIN Added(menu, menu') :
             \E i \in DOMAIN restaurant' :
                /\ restaurant'[i].id = Added(menu, menu')[m].restaurant_id
                /\ restaurant'[i].yelp_id = last'.yelp_id]_vars

\* a second restaurant was saved and one of its dish inserts failed
C19_Witness ==
    /\ last.kind = "processed" /\ SomeFailed(last.calls)
    /\ Len(restaurant) = 2
    /\ restaurant[2].yelp_id = last.yelp_id
    /\ Len(menu) = 2
    /\ menu[1].restaurant_id = restaurant[1].id
    /\ menu[2].restaurant_id = restaurant[2].id
    /\ \E d \in DOMAIN dish : dish[d].menu_id = menu[2].id

DishCalls(calls) == SelectSeq(calls, LAMBDA c : c.table = "dish")
OkCalls(calls) == SelectSeq(calls, LAMBDA c : c.ok)

\* C20: the dish rows a save adds are a prefix, in extraction order, of the
\* scraped dishes, all linked to the menu row the save added; a failed dish
\* insert is the last store call, so the rows added are exactly the dishes
\* before the failing one, and they, the menu row and the restaurant row stay.
C20_DishPrefix ==
    [][(handled' = handled + 1 /\ last'.kind = "processed")
       => LET newDishes == Added(dish, dish')
              newMenus == Added(menu, menu')
              dishCalls == DishCalls(last'.calls)
          IN /\ IsPrefix(dish, dish') /\ IsPrefix(menu, menu')
             /\ IsPrefix(restaurant, restaurant')
             /\ Len(newDishes) <= Len(last'.scraped)
             /\ Len(newDishes) = Len(OkCalls(dishCalls))
             /\ \A k \in DOMAIN newDishes :
                   /\ newDishes[k].name = last'.scraped[k].name
                   /\ newDishes[k].description = last'.scraped[k].description
                   /\ newDishes[k].price = ExpectedPrice(last'.scraped[k].price)
                   /\ Len(newMenus) = 1
                   /\ newDishes[k].menu_id = newMenus[1].id
             /\ SomeFailed(dishCalls)
                => (/\ ~last'.calls[Len(last'.calls)].ok
                    /\ Len(OkCalls(dishCalls)) = Len(dishCalls) - 1
                    /\ Len(newMenus) = 1
                    /\ \E i \in DOMAIN restaurant' :
                          /\ restaurant'[i].yelp_id = last'.yelp_id
                          /\ restaurant'[i].id = newMenus[1].restaurant_id)]_vars

\* the insert of the second of two dishes failed: the first one stays
C20_Witness ==
    /\ handled = 1
    /\ last.kind = "processed"
    /\ Len(last.scraped) = 2
    /\ Len(last.calls) = 5 /\ ~last.calls[5].ok
    /\ Len(restaurant) = 1 /\ Len(menu) = 1
    /\ Len(dish) = 1 /\ dish[1].name = "Burger" /\ dish[1].menu_id = menu[1].id

\* ------------------------------------------------------- claims C15, C16

\* C15: before every page request but the first, the one-second sleep has run
\* since the request before it, whatever that request's outcome was.
C15_SleepBetweenRequests ==
    \A i \in DOMAIN requests : i > 1 => requests[i].slept

\* C16: a page that succeeded with zero businesses is the last request, no
\* request is issued once total_limit businesses are collected, and a page
\* with fewer businesses than requested leaves the loop running.
C16_StopConditions ==
    /\ [](\A i \in DOMAIN requests :
             /\ requests[i].outcome = 0 => i = Len(requests)
             /\ requests[i].collected < total_limit)
    /\ [][(/\ Len(requests') = Len(requests) + 1
           /\ requests'[Len(requests')].outcome > 0
           /\ requests'[Len(requests')].outcome < requests'[Len(requests')].limit)
          => (search_pc' = "loop" /\ batch_num' = batch_num + 1)]_vars

\* a short first page was followed by a second request, which came back empty
C16_Witness ==
    /\ search_pc = "done"
    /\ Len(requests) = 2
    /\ requests[1].outcome > 0 /\ requests[1].outcome < requests[1].limit
    /\ requests[2].outcome = 0
    /\ batch_num < NumBatches(total_limit)

\* ------------------------------------------------------ construct_menu_url
\* strings are sequences of characters here
UpperCase == <<"A", "B", "C", "D", "E", "F", "G", "H", "I", "J", "K", "L", "M",
               "N", "O", "P", "Q", "R", "S", "T", "U", "V", "W", "X", "Y", "Z">>
LowerCase == <<"a", "b", "c", "d", "e", "f", "g", "h", "i", "j", "k", "l", "m",
               "n", "o", "p", "q", "r", "s", "t", "u", "v", "w", "x", "y", "z">>

\* str.lower()
LowerChar(c) ==
    IF \E i \in DOMAIN UpperCase : UpperCase[i] = c
    THEN LowerCase[CHOOSE i \in DOMAIN UpperCase : UpperCase[i] = c]
    ELSE c
Lower(str) == [i \in DOMAIN str |-> LowerChar(str[i])]

IsAlnum(c) == c \in Digits \/ \E i \in DOMAIN LowerCase : LowerCase[i] = c

RECURSIVE Hyphenate(_)
\* re.sub(r'[^a-z0-9]+', '-', s) followed by re.sub(r'-+', '-', s)
Hyphenate(str) ==
    IF str = <<>> THEN <<>>
    ELSE IF IsAlnum(Head(str)) THEN <<Head(str)>> \o Hyphenate(Tail(str))
    ELSE IF Len(str) > 1 /\ ~IsAlnum(str[2]) THEN Hyphenate(Tail(str))
    ELSE <<"-">> \o Hyphenate(Tail(str))

RECURSIVE StripChars(_, _)
\* str.strip(chars)
StripChars(str, chars) ==
    IF str = <<>> THEN <<>>
    ELSE IF Head(str) \in chars THEN StripChars(Tail(str), chars)
    ELSE IF str[Len(str)] \in chars THEN StripChars(SubSeq(str, 1, Len(str) - 1), chars)
    ELSE str

RECURSIVE Split(_, _)
\* str.split(sep) for a one-character separator
Split(str, sep) ==
    IF \E i \in DOMAIN str : str[i] = sep
    THEN LET i == CHOOSE k \in DOMAIN str :
                     str[k] = sep /\ \A j \in 1..(k - 1) : str[j] # sep
         IN <<SubSeq(str, 1, i - 1)>> \o Split(SubSeq(str, i + 1, Len(str)), sep)
    ELSE <<str>>

\* sub in str
Contains(str, sub) ==
    \E i \in 1..(Len(str) - Len(sub) + 1) : SubSeq(str, i, i + Len(sub) - 1) = sub

S_san_ramon == <<"s", "a", "n", " ", "r", "a", "m", "o", "n">>
S_dublin == <<"d", "u", "b", "l", "i", "n">>
S_pleasanton == <<"p", "l", "e", "a", "s", "a", "n", "t", "o", "n">>
S_livermore == <<"l", "i", "v", "e", "r", "m", "o", "r", "e">>
S_castro_valley == <<"c", "a", "s", "t", "r", "o", " ", "v", "a", "l", "l", "e", "y">>
S_hayward == <<"h", "a", "y", "w", "a", "r", "d">>

\* the if/elif chain of lines 156-167, in its order: the name looked for and
\* the slug it sets
Localities ==
    <<[name |-> S_san_ramon, slug |-> <<"s", "a", "n", "-", "r", "a", "m", "o", "n">>],
      [name |-> S_dublin, slug |-> <<"d", "u", "b", "l", "i", "n">>],
      [name |-> S_pleasanton, slug |-> <<"p", "l", "e", "a", "s", "a", "n", "t", "o", "n">>],
      [name |-> S_livermore, slug |-> <<"l", "i", "v", "e", "r", "m", "o", "r", "e">>],
      [name |-> S_castro_valley, slug |-> <<"c", "a", "s", "t", "r", "o", "-", "v", "a", "l", "l", "e", "y">>],
      [name |-> S_hayward, slug |-> <<"h", "a", "y", "w", "a", "r", "d">>]>>

DefaultLocation == <<"s", "a", "n", "-", "r", "a", "m", "o", "n">>

\* lines 156-167 on one part: the first branch of the chain that applies
\* sets location, and no branch leaves it
LocationOfPart(part, location) ==
    IF \E i \in DOMAIN Localities : Contains(part, Localities[i].name)
    THEN Localities[CHOOSE i \in DOMAIN Localities :
                       /\ Contains(part, Localities[i].name)
                       /\ \A j \in 1..(i - 1) : ~Contains(part, Localities[j].name)].slug
    ELSE location

RECURSIVE LocationOf(_, _)
\* lines 154-167: the loop runs over every part, so a later part overwrites
\* what an earlier one set
LocationOf(parts, location) ==
    IF parts = <<>> THEN location
    ELSE LocationOf(Tail(parts),
                    LocationOfPart(StripChars(Head(parts), {" "}), location))

\* lines 140-171; the URL is the fixed base followed by the path
construct_menu_url(r) ==
    LET business_name == StripChars(Hyphenate(Lower(r.name)), {"-"})
        location == IF r.address # <<>>
                    THEN LocationOf(Split(Lower(r.address), ","), DefaultLocation)
                    ELSE DefaultLocation
    IN [base |-> "https://www.yelp.com/menu/",
        business_name |-> business_name,
        location |-> location,
        path |-> business_name \o <<"-">> \o location]

\* ------------------------------------------------------------ helper calls
AddressParts ==
    {<<"1", " ", "M", "a", "i", "n", " ", "S", "t">>,
     <<"S", "a", "n", " ", "R", "a", "m", "o", "n">>,
     <<"D", "U", "B", "L", "I", "N">>,
     <<"P", "l", "e", "a", "s", "a", "n", "t", "o", "n">>,
     <<"l", "i", "v", "e", "r", "m", "o", "r", "e">>,
     <<"C", "a", "s", "t", "r", "o", " ", "V", "a", "l", "l", "e", "y">>,
     <<"H", "a", "y", "w", "a", "r", "d">>,
     <<"C", "A">>,
     <<"1", " ", "S", "a", "n", " ", "R", "a", "m", "o", "n", " ", "R", "d">>,
     <<"D", "u", "b", "l", "i", "n", " ", "H", "a", "y", "w", "a", "r", "d">>}

RECURSIVE JoinParts(_)
\* the display_address lines joined with ', ' (line 118)
JoinParts(parts) ==
    IF Len(parts) = 1 THEN parts[1]
    ELSE parts[1] \o <<",", " ">> \o JoinParts(Tail(parts))

RECURSIVE SeqsOf(_, _)
\* the sequences of exactly n elements of S
SeqsOf(S, n) ==
    IF n = 0 THEN {<<>>}
    ELSE {Append(q, x) : q \in SeqsOf(S, n - 1), x \in S}

\* no address (None, or the empty string), or one to MaxParts parts
Addresses ==
    {<<>>} \cup UNION {{JoinParts(p) : p \in SeqsOf(AddressParts, n)} : n \in 1..MaxParts}

RestaurantNames ==
    {<<"J", "o", "e", "'", "s", " ", "C", "a", "f", "é", "!">>,
     <<"T", "e", "s", "t", " ", "D", "i", "n", "e", "r">>}

PriceChars == {"$", "1", "0", ".", ",", "M"}

PriceTexts ==
    UNION {SeqsOf(PriceChars, n) : n \in 0..MaxPriceLen}
    \cup {<<"$", "1", "2", ".", "5", "0">>,
          <<"$", "1", ",", "2", "3", "4">>,
          <<"M", "a", "r", "k", "e", "t", " ", "P", "r", "i", "c", "e">>}

HelperInit ==
    /\ CollectIdle
    /\ ScrapeIdle
    /\ total_limit = 0
    /\ batch_num = 0
    /\ all_businesses = <<>>
    /\ requests = <<>>
    /\ slept = FALSE
    /\ search_pc = "done"
    /\ ret = <<>>
    /\ helper_pc = "call"
    /\ \/ \E n \in RestaurantNames, a \in Addresses :
             call = [fn |-> "construct_menu_url", name |-> n, address |-> a]
       \/ \E t \in PriceTexts :
             call = [fn |-> "clean_price", price_str |-> t]

ConstructMenuUrl ==
    /\ helper_pc = "call"
    /\ call.fn = "construct_menu_url"
    /\ ret' = construct_menu_url([name |-> call.name, address |-> call.address])
    /\ helper_pc' = "done"
    /\ UNCHANGED <<call, searchVars, collectVars, scrapeVars>>

CleanPrice ==
    /\ helper_pc = "call"
    /\ call.fn = "clean_price"
    /\ ret' = clean_price(call.price_str)
    /\ helper_pc' = "done"
    /\ UNCHANGED <<call, searchVars, collectVars, scrapeVars>>

HelperNext == ConstructMenuUrl \/ CleanPrice

HelperSpec == HelperInit /\ [][HelperNext]_vars

\* --------------------------------------------------------------- claim C13
\* C13 (as stated): the location slug is that of the first entry of the
\* ordered sub-locality list occurring anywhere in the lower-cased address,
\* and san-ramon when none occurs or the address is absent.
C13_FirstListedLocality ==
    (helper_pc = "done" /\ call.fn = "construct_menu_url") =>
        LET address == Lower(call.address)
            found == {i \in DOMAIN Localities : Contains(address, Localities[i].name)}
        IN ret.location =
              IF found = {} THEN DefaultLocation
              ELSE Localities[CHOOSE i \in found : \A j \in found : i <= j].slug

\* --------------------------------------------------------------- claim C14
\* the digits of a text that follow its first decimal point
FractionDigits(text) ==
    IF \E i \in DOMAIN text : text[i] = "."
    THEN LET dot == CHOOSE i \in DOMAIN text :
                       text[i] = "." /\ \A j \in 1..(i - 1) : text[j] # "."
         IN Len(SelectSeq(SubSeq(text, dot + 1, Len(text)), IsDigit))
    ELSE 0

\* C14: clean_price returns absent for empty input, for text without a digit
\* and for text with more than one decimal point; otherwise it returns the
\* value of the digits left, the decimal point kept in its place, so that
\* "$1,234" gives 1234, "$12.50" gives 12.50 and "Market Price" gives absent.
C14_CleanPrice ==
    (helper_pc = "done" /\ call.fn = "clean_price") =>
        LET text == call.price_str
            digits == SelectSeq(text, IsDigit)
            dots == Len(SelectSeq(text, IsDot))
            f == FractionDigits(text)
        IN /\ IF text = <<>> \/ digits = <<>> \/ dots > 1
              THEN ret = NoPrice
              ELSE /\ ret # NoPrice
                   /\ ret[2] <= f
                   /\ ret[1] * 10 ^ (f - ret[2]) = IntOf(digits)
                   /\ ret[2] = 0 \/ ret[1] % 10 # 0
           /\ text = <<"$", "1", ",", "2", "3", "4">> => ret = <<1234, 0>>
           /\ text = <<"$", "1", "2", ".", "5", "0">> => ret = <<125, 1>>
           /\ text = <<"M", "a", "r", "k", "e", "t", " ", "P", "r", "i", "c", "e">> => ret = NoPrice

\* a price with a fraction, a thousands separator stripped, a lone decimal
\* point and two decimal points have all been parsed
C14_Witness ==
    /\ helper_pc = "done"
    /\ call.fn = "clean_price"
    /\ call.price_str = <<"1", ".", "1">>
    /\ ret = <<11, 1>>

\* --------------------------------------------------- scrape_menu_from_yelp
\* the ordered selector lists of lines 185-191, 206, 216-221 and 230-235
selectors_to_try ==
    <<"div.menu-item", "[data-testid=\"menu-item\"]", ".menu-item-details",
      ".menuItem", ".biz-menu-item">>
name_selectors == <<"h4", ".menu-item-name", ".item-name", "h3", "strong">>
desc_selectors ==
    <<".menu-item-details-description", ".menu-item-description",
      ".item-description", "p">>
price_selectors ==
    <<".menu-item-price-amount", ".menu-item-price", ".item-price", ".price">>

\* what select_one returns for one selector: no element, or an element with
\* its stripped text (a name or description as a string, a price text as a
\* sequence of characters)
NoElem == [found |-> FALSE, text |-> ""]
Elem(text) == [found |-> TRUE, text |-> text]
NoPriceElem == [found |-> FALSE, text |-> <<>>]

\* an element object is true whatever its text (lines 209, 224, 238)
Truthy(elem) == elem.found

\* the text of the first selector that matches an element, and otherwise
\* the initial value of the field
FirstMatch(elems, initial) ==
    IF \E i \in DOMAIN elems : Truthy(elems[i])
    THEN elems[CHOOSE i \in DOMAIN elems :
                  Truthy(elems[i]) /\ \A j \in 1..(i - 1) : ~Truthy(elems[j])].text
    ELSE initial

DigitsOrComma == Digits \cup {","}

\* the length of the longest run of characters of Chars from position i
RunLength(text, i, Chars) ==
    CHOOSE n \in 0..Len(text) :
        /\ i + n - 1 <= Len(text)
        /\ \A k \in i..(i + n - 1) : text[k] \in Chars
        /\ i + n <= Len(text) => text[i + n] \notin Chars

\* whether \$[\d,]+\.?\d* matches at position i
MatchesAt(text, i) ==
    /\ text[i] = "$"
    /\ RunLength(text, i + 1, DigitsOrComma) > 0

\* re.search(r'\$[\d,]+\.?\d*', price_text).group(), or '' without a match
\* (lines 241-243): the leftmost match, every part as long as it can be
PriceMatch(price_text) ==
    IF \E i \in DOMAIN price_text : MatchesAt(price_text, i)
    THEN LET i == CHOOSE k \in DOMAIN price_text :
                     MatchesAt(price_text, k) /\ \A j \in 1..(k - 1) : ~MatchesAt(price_text, j)
             a == i + RunLength(price_text, i + 1, DigitsOrComma)
             b == IF a < Len(price_text) /\ price_text[a + 1] = "." THEN a + 1 ELSE a
             c == b + RunLength(price_text, b + 1, Digits)
         IN SubSeq(price_text, i, c)
    ELSE <<>>

\* lines 205-244
ItemName(container) == FirstMatch(container.name, "")
ItemDescription(container) == FirstMatch(container.description, "")
ItemPrice(container) == PriceMatch(FirstMatch(container.price, <<>>))

\* variant: a name alone is enough to keep an item
KeepNamed(item_name, description, price) ==
    item_name # ""

\* line 247
Keep(item_name, description, price) ==
    item_name # "" /\ (description # "" \/ price # <<>>)

\* the fields read from a container (lines 205-244); a container that raises
\* while it is processed leaves nothing
Extract(container) ==
    IF container.raises
    THEN [container |-> container, name |-> "", description |-> "", price |-> <<>>]
    ELSE [container |-> container,
          name |-> ItemName(container),
          description |-> ItemDescription(container),
          price |-> ItemPrice(container)]

\* lines 247-256: the item appended, or the container skipped
AppendItem(items, it) ==
    IF ~it.container.raises /\ Keep(it.name, it.description, it.price)
    THEN Append(items, [name |-> it.name, description |-> it.description,
                        price |-> it.price])
    ELSE items

\* variant: the loop over the selectors has no break, the last one that
\* matches is used
LastSelector(matches) ==
    IF \E i \in DOMAIN matches : matches[i] > 0
    THEN CHOOSE i \in DOMAIN matches :
            matches[i] > 0 /\ \A j \in (i + 1)..Len(matches) : matches[j] = 0
    ELSE 0

\* lines 193-197: the first selector with at least one match, 0 when none
FirstSelector(matches) ==
    IF \E i \in DOMAIN matches : matches[i] > 0
    THEN CHOOSE i \in DOMAIN matches :
            matches[i] > 0 /\ \A j \in 1..(i - 1) : matches[j] = 0
    ELSE 0

\* ------------------------------------------------------------- menu pages
NameElems ==
    {<<Elem("Burger"), NoElem, NoElem, NoElem, NoElem>>,
     <<NoElem, NoElem, NoElem, NoElem, NoElem>>,
     <<Elem(""), NoElem, NoElem, Elem("Burger"), NoElem>>,
     <<NoElem, NoElem, NoElem, NoElem, Elem("Soup")>>,
     <<NoElem, Elem("Burger"), Elem("Soup"), NoElem, NoElem>>}

DescElems ==
    {<<Elem("Beef"), NoElem, NoElem, NoElem>>,
     <<NoElem, NoElem, NoElem, NoElem>>,
     <<NoElem, Elem(""), NoElem, Elem("Beef")>>,
     <<NoElem, NoElem, NoElem, Elem("Hot")>>}

PriceElems ==
    {<<Elem(<<"$", "9", ".", "9", "9">>), NoPriceElem, NoPriceElem, NoPriceElem>>,
     <<NoPriceElem, NoPriceElem, NoPriceElem, NoPriceElem>>,
     <<NoPriceElem, Elem(<<"M", "P">>), NoPriceElem, Elem(<<"$", "9", ".", "9", "9">>)>>,
     <<NoPriceElem, NoPriceElem, Elem(<<"~", "$", "1", ",", "2", "0", "0", ".", "5", "0", "+">>), NoPriceElem>>,
     <<NoPriceElem, NoPriceElem, NoPriceElem, Elem(<<"$", " ", "5", " ", "$", "7", ".">>)>>}

BaseName == <<Elem("Burger"), NoElem, NoElem, NoElem, NoElem>>
BaseDesc == <<NoElem, NoElem, NoElem, NoElem>>
BasePrice == <<Elem(<<"$", "9", ".", "9", "9">>), NoPriceElem, NoPriceElem, NoPriceElem>>

Container(n, d, p, raises) ==
    [name |-> n, description |-> d, price |-> p, raises |-> raises]

\* the containers a page may hold: each field varied on its own, the
\* containers with a name only or without a name, and one that raises while
\* it is processed
Containers ==
    {Container(n, BaseDesc, BasePrice, FALSE) : n \in NameElems}
    \cup {Container(BaseName, d, BasePrice, FALSE) : d \in DescElems}
    \cup {Container(BaseName, BaseDesc, p, FALSE) : p \in PriceElems}
    \cup {Container(BaseName, d, <<NoPriceElem, NoPriceElem, NoPriceElem, NoPriceElem>>, FALSE) :
             d \in DescElems}
    \cup {Container(BaseName, BaseDesc, BasePrice, TRUE)}

\* how many containers each container selector matches on a page
Pages ==
    {m \in [DOMAIN selectors_to_try -> 0..MaxContainers] :
        Cardinality({i \in DOMAIN m : m[i] > 0}) <= MaxMatching}

NoMatches == [i \in DOMAIN selectors_to_try |-> 0]

\* the page requested: the request or the parse fails, or the page parses
ScrapeInit ==
    /\ CollectIdle
    /\ HelperIdle
    /\ total_limit = 0
    /\ batch_num = 0
    /\ all_businesses = <<>>
    /\ requests = <<>>
    /\ slept = FALSE
    /\ search_pc = "done"
    /\ \/ \E status \in {"request_error", "error"} :
             soup = [status |-> status, matches |-> NoMatches]
       \/ \E m \in Pages : soup = [status |-> "ok", matches |-> m]
    /\ scrape_selector = 0
    /\ items_n = 0
    /\ item_idx = 0
    /\ item = <<>>
    /\ menu_items = <<>>
    /\ scrape_ret = <<>>
    /\ scrape_pc = "fetch"

\* lines 175-201 and 261-266
SelectItems ==
    /\ scrape_pc = "fetch"
    /\ IF soup.status # "ok"
       THEN /\ scrape_ret' = <<>>
            /\ scrape_pc' = "done"
            /\ UNCHANGED <<scrape_selector, items_n>>
       ELSE LET sel == FirstSelector(soup.matches)
            IN /\ scrape_selector' = sel
               /\ items_n' = IF sel = 0 THEN 0 ELSE soup.matches[sel]
               /\ IF sel = 0
                  THEN scrape_ret' = <<>> /\ scrape_pc' = "done"
                  ELSE scrape_ret' = scrape_ret /\ scrape_pc' = "items"
    /\ UNCHANGED <<soup, item_idx, item, menu_items, searchVars, collectVars, helperVars>>

\* lines 203-256, one container
ScrapeItem ==
    /\ scrape_pc = "items"
    /\ item_idx < items_n
    /\ \E container \in Containers :
          /\ item' = Extract(container)
          /\ menu_items' = AppendItem(menu_items, Extract(container))
    /\ item_idx' = item_idx + 1
    /\ UNCHANGED <<soup, scrape_selector, items_n, scrape_ret, scrape_pc,
                   searchVars, collectVars, helperVars>>

\* lines 258-259
ScrapeReturn ==
    /\ scrape_pc = "items"
    /\ item_idx = items_n
    /\ scrape_ret' = menu_items
    /\ scrape_pc' = "done"
    /\ UNCHANGED <<soup, scrape_selector, items_n, item_idx, item, menu_items,
                   searchVars, collectVars, helperVars>>

ScrapeNext == SelectItems \/ ScrapeItem \/ ScrapeReturn

ScrapeSpec == ScrapeInit /\ [][ScrapeNext]_vars

\* --------------------------------------------------------------- claim C12
\* C12: once the page has been looked at, a failed fetch or a page no
\* selector matches has returned the empty sequence; otherwise the selector in
\* use is the first in priority order with a match, the containers processed
\* are that selector's alone, and all of them have been processed on return.
C12_FirstMatchingSelector ==
    scrape_pc # "fetch" =>
        LET matching == {i \in DOMAIN selectors_to_try : soup.matches[i] > 0}
        IN IF soup.status # "ok" \/ matching = {}
           THEN /\ scrape_pc = "done"
                /\ scrape_ret = <<>>
                /\ item_idx = 0
           ELSE /\ scrape_selector \in matching
                /\ \A i \in matching : scrape_selector <= i
                /\ items_n = soup.matches[scrape_selector]
                /\ item_idx <= items_n
                /\ scrape_pc = "done" => item_idx = items_n

\* two selectors match different numbers of containers, the first selector
\* of the list matches none, and the page has been scraped to the end
C12_Witness ==
    /\ scrape_pc = "done"
    /\ soup.status = "ok"
    /\ soup.matches[1] = 0
    /\ soup.matches[2] = 1
    /\ soup.matches[4] = 2
    /\ scrape_selector = 2
    /\ item_idx = 1

\* --------------------------------------------------------------- claim C17
\* the first text, in selector order, that is not empty
FirstNonEmpty(texts, initial) ==
    IF \E i \in DOMAIN texts : texts[i] # initial
    THEN texts[CHOOSE i \in DOMAIN texts :
                  texts[i] # initial /\ \A j \in 1..(i - 1) : texts[j] = initial]
    ELSE initial

\* the texts of the elements found, empty where none was
Texts(elems) == [i \in DOMAIN elems |-> elems[i].text]
PriceTextsOf(elems) == [i \in DOMAIN elems |-> PriceMatch(elems[i].text)]

\* C17 (as stated): each field of a processed container comes from the first
\* selector, in the field's priority order, whose match is non-empty: an
\* element with empty text, or a price element without a currency pattern,
\* does not stop the search.
C17_FirstNonEmptyMatch ==
    (item_idx > 0 /\ ~item.container.raises) =>
        /\ item.name = FirstNonEmpty(Texts(item.container.name), "")
        /\ item.description = FirstNonEmpty(Texts(item.container.description), "")
        /\ item.price = FirstNonEmpty(PriceTextsOf(item.container.price), <<>>)

\* --------------------------------------------------------------- claim C18
\* C18: every item kept has a name and a description or a price; processing
\* a container appends its item when the container does not raise and passes
\* this test and leaves the items alone otherwise, so the items stay in page
\* order; the items kept are what is returned.
C18_KeptItems ==
    /\ [](\A i \in DOMAIN menu_items :
             /\ menu_items[i].name # ""
             /\ menu_items[i].description # "" \/ menu_items[i].price # <<>>)
    /\ [][item_idx' = item_idx + 1 =>
             menu_items' =
                IF /\ ~item'.container.raises
                   /\ item'.name # ""
                   /\ item'.description # "" \/ item'.price # <<>>
                THEN Append(menu_items, [name |-> item'.name,
                                         description |-> item'.description,
                                         price |-> item'.price])
                ELSE menu_items]_vars
    /\ []((scrape_pc = "done" /\ item_idx > 0) => scrape_ret = menu_items)

\* the first of two containers was kept with a price cut out of its
\* surrounding text, the second raised, and the first is what was returned
C18_Witness ==
    /\ scrape_pc = "done"
    /\ item_idx = 2
    /\ item.container.raises
    /\ scrape_ret = <<[name |-> "Burger", description |-> "",
                       price |-> <<"$", "1", ",", "2", "0", "0", ".", "5", "0">>]>>

\* --------------------------------------------------------------- claim C21
\* C21: in a run of collect_san_ramon_data the processed and skipped counters
\* add up to the number of businesses handled so far; handling a business
\* changes exactly one of the two counters, by one; the processed counter is
\* the one that moves whenever the extraction found items, also when a store
\* call failed; and when the run completes normally the counters add up to
\* the number of businesses the search returned.
C21_CounterAccounting ==
    /\ [](restaurants_processed + restaurants_skipped = idx)
    /\ [](pc = "done" => restaurants_processed + restaurants_skipped = num_businesses)
    /\ [][idx' = idx + 1 =>
             \/ /\ restaurants_processed' = restaurants_processed + 1
                /\ restaurants_skipped' = restaurants_skipped
             \/ /\ restaurants_processed' = restaurants_processed
                /\ restaurants_skipped' = restaurants_skipped + 1]_vars
    /\ [][(idx' = idx + 1 /\ last'.scraped # <<>>) =>
             restaurants_processed' = restaurants_processed + 1]_vars

\* a run over two businesses has completed: one was skipped, and the last
\* had items and counts as processed although one of its store calls failed
C21_Witness ==
    /\ pc = "done"
    /\ num_businesses = 2
    /\ restaurants_skipped = 1
    /\ restaurants_processed = 1
    /\ last.kind = "processed"
    /\ last.scraped # <<>>
    /\ SomeFailed(last.calls)
====
